---------------------------- MODULE Spec2Model ----------------------------
(***************************************************************************)
(* A model of the digital voting application src/app.py: the relational    *)
(* store (tables user, candidate, vote, election), the upload folder, the  *)
(* login sessions, and every request handler that changes them.            *)
(*                                                                         *)
(* Spec       every handler runs as one atomic step (requests one at a     *)
(*            time);                                                       *)
(* SpecAccounts, SpecElection  the same, restricted to the account and to  *)
(*            the election handlers, with more inputs;                     *)
(* SpecVote   /vote requests run step by step and interleave;              *)
(* SpecElect  /admin/elections/add and /edit requests interleave;          *)
(* SpecReg    /register requests interleave;                               *)
(* SpecTally  votes, candidates, the tally and the lookup of a code, one   *)
(*            request at a time;                                           *)
(* SpecOrder  /register with forms that break the rules, one request at a  *)
(*            time;                                                        *)
(* SpecRevote      one voter, candidates added and deleted;                *)
(* SpecCandidates  candidates and their image files.                       *)
(*                                                                         *)
(* Store semantics modelled: SQLite rowids (a new row gets max(id)+1), the *)
(* UNIQUE columns declared on the models, ORM cascades on delete, a        *)
(* SELECT reads the committed state, a commit flushes the unit of work     *)
(* (INSERTs, and UPDATEs of the attributes that differ from the loaded     *)
(* snapshot) atomically.                                                   *)
(***************************************************************************)
EXTENDS Integers, Sequences, FiniteSets, TLC

VARIABLES
    users,       \* table "user": set of rows
    candidates,  \* table "candidate"
    votes,       \* table "vote"
    elections,   \* table "election"
    uploads,     \* names of the files stored under UPLOAD_FOLDER
    session,     \* client -> id of the logged-in user (Anonymous when none)
    uuidCtr,     \* number of confirmation codes (uuid4) drawn so far
    verificationRequired,  \* app.config["ID_VERIFICATION_REQUIRED"]
    last,        \* the last completed request: operation, client, argument, outcome
    reqs         \* requests in flight (the interleaved specifications only)

store == <<users, candidates, votes, elections, uploads>>
vars == <<users, candidates, votes, elections, uploads, session, uuidCtr,
          verificationRequired, last, reqs>>

---------------------------------------------------------------------------
(* Bounds of the model. *)
MaxCandidates == 1
MaxElections == 1
MaxUuid == 2
MaxReqs == 2
MaxElectionRows == 3
MaxTallyCandidates == 3
MaxAccounts == 3

(* Program constants. *)
Anonymous == 0
NoneStr == "<None>"

Clients == {"c1", "c2"}

---------------------------------------------------------------------------
(* Strings the validators look into are sequences of one-character strings. *)
Digits == {"0", "1", "2", "3", "4", "5", "6", "7", "8", "9"}
Uppers == {"A", "B", "C", "D", "E", "F", "G", "H", "I", "J", "K", "L", "M",
           "N", "O", "P", "Q", "R", "S", "T", "U", "V", "W", "X", "Y", "Z"}
NoneNum == <<NoneStr>>
\* A file name is a tuple of its parts; no file (None) is the empty one.
NoFile == <<>>

\* re "^...$" with match(): "$" also matches before one trailing newline.
DollarLen(s, n) == Len(s) = n \/ (Len(s) = n + 1 /\ s[n + 1] = "\n")

validate_aadhaar(s) ==
    /\ DollarLen(s, 12)
    /\ \A i \in 1..12 : s[i] \in Digits

validate_voter_id(s) ==
    /\ DollarLen(s, 10)
    /\ \A i \in 1..3 : s[i] \in Uppers
    /\ \A i \in 4..10 : s[i] \in Digits

validate_pan(s) ==
    /\ DollarLen(s, 10)
    /\ \A i \in 1..5 : s[i] \in Uppers
    /\ \A i \in 6..9 : s[i] \in Digits
    /\ s[10] \in Uppers

\* generate_password_hash / check_password_hash: the hash is a function of the
\* password (the salt is left out), and a check recomputes it.
generate_password_hash(p) == <<"scrypt", p>>
check_password_hash(h, p) == h = generate_password_hash(p)

---------------------------------------------------------------------------
(* The store. *)
Max(S) == IF S = {} THEN 0 ELSE CHOOSE m \in S : \A x \in S : x <= m
Ids(table) == {r.id : r \in table}
\* INTEGER PRIMARY KEY on SQLite: the new rowid is the largest one plus one.
NextId(table) == Max(Ids(table)) + 1
Has(table, id) == id \in Ids(table)
Get(table, id) == CHOOSE r \in table : r.id = id

\* flask_login's current_user: the row the session's user id loads, if any.
load_user(c) == IF Has(users, session[c]) THEN session[c] ELSE Anonymous
is_authenticated(c) == load_user(c) # Anonymous
current_user(c) == Get(users, load_user(c))

\* What a completed request leaves in "last": arg is the id in the URL (0 when
\* there is none; the index of the form for register and login; the code for
\* verify_vote), flag the is_active checkbox of an election form.
\* page is what the rendered template was given: the tally (results,
\* total_votes) of /admin/results, the rows (vote, candidate, user: a set with
\* the row, empty for None) of /verify_vote; NoPage for a redirect.
NoPage ==
    [results |-> <<>>, total_votes |-> 0, vote |-> {}, candidate |-> {}, user |-> {}]
DoneP(op, c, arg, flag, res, page) ==
    last' = [op |-> op, client |-> c, arg |-> arg, flag |-> flag, result |-> res,
             page |-> page]
DoneF(op, c, arg, flag, res) == DoneP(op, c, arg, flag, res, NoPage)
Done(op, c, arg, res) == DoneF(op, c, arg, FALSE, res)
\* Before the first request.
NoRequest ==
    [op |-> "start", client |-> "c1", arg |-> 0, flag |-> FALSE, result |-> "ok",
     page |-> NoPage]

\* create_tables_and_admin
AdminRow ==
    [id |-> 1, username |-> "admin", email |-> "admin@example.com",
     password |-> generate_password_hash("admin123"), is_admin |-> TRUE,
     id_type |-> NoneStr, id_number |-> NoneNum, id_proof_image |-> NoFile,
     is_verified |-> TRUE]

Init ==
    /\ users = {AdminRow}
    /\ candidates = {}
    /\ votes = {}
    /\ elections = {}
    /\ uploads = {}
    /\ session = [c \in Clients |-> Anonymous]
    /\ uuidCtr = 0
    /\ verificationRequired \in BOOLEAN
    /\ last = NoRequest
    /\ reqs = <<>>

---------------------------------------------------------------------------
(* Requests, each handler as one atomic step. *)

\* The fields of a /register form. has_proof: an "id_proof" file with a
\* non-empty filename came with the form.
Form(u, e, p, cp, t, n, f) ==
    [username |-> u, email |-> e, password |-> p, confirm_password |-> cp,
     id_type |-> t, id_number |-> n, has_proof |-> f]

Aadhaar1 == <<"1", "2", "3", "4", "5", "6", "7", "8", "9", "0", "1", "2">>
VoterId1 == <<"A", "B", "C", "1", "2", "3", "4", "5", "6", "7">>

Aadhaar2 == <<"9", "8", "7", "6", "5", "4", "3", "2", "1", "0", "9", "8">>
Pan1 == <<"A", "B", "C", "D", "E", "1", "2", "3", "4", "F">>

Aadhaar11 == <<"1", "2", "3", "4", "5", "6", "7", "8", "9", "0", "1">>
VoterId4Letters == <<"A", "B", "C", "D", "1", "2", "3", "4", "5", "6">>

\* The forms tried: 3 repeats the username of 1, 4 its document, 5 its email,
\* and 6 its document number under a type that no validator knows; 7 to 11
\* break several rules at once (7 the passwords, 8 and 9 a short number with a
\* taken username or email, 10 a voter id of four letters, 11 the document of
\* 1); 12 to 15 lack the type or the number or end the number with a newline.
Forms ==
    << Form("alice", "alice@example.com", "pw1", "pw1", "aadhaar", Aadhaar1, TRUE),
       Form("bob", "bob@example.com", "pw1", "pw1", "voter_id", VoterId1, FALSE),
       Form("alice", "alice2@example.com", "pw1", "pw1", "pan", Pan1, TRUE),
       Form("carol", "carol@example.com", "pw1", "pw1", "aadhaar", Aadhaar1, FALSE),
       Form("dave", "alice@example.com", "pw1", "pw1", "aadhaar", Aadhaar2, FALSE),
       Form("erin", "erin@example.com", "pw1", "pw1", "passport", Aadhaar1, FALSE),
       Form("alice", "alice@example.com", "pw1", "pw2", "aadhaar", Aadhaar1, TRUE),
       Form("alice", "alice@example.com", "pw1", "pw1", "aadhaar", Aadhaar11, TRUE),
       Form("frank", "alice@example.com", "pw1", "pw1", "aadhaar", Aadhaar11, TRUE),
       Form("gina", "gina@example.com", "pw1", "pw1", "voter_id", VoterId4Letters, TRUE),
       Form("hana", "hana@example.com", "pw1", "pw1", "aadhaar", Aadhaar1, TRUE),
       Form("ivan", "ivan@example.com", "pw1", "pw1", NoneStr, Aadhaar1, FALSE),
       Form("judy", "judy@example.com", "pw1", "pw1", NoneStr, NoneNum, FALSE),
       Form("kate", "kate@example.com", "pw1", "pw1", "aadhaar", NoneNum, FALSE),
       Form("lena", "lena@example.com", "pw1", "pw1", "aadhaar", Aadhaar1 \o <<"\n">>, FALSE),
       Form("mona", "mona@example.com", "pw1", "pw1", "pan", Pan1, FALSE) >>

\* A validator applied to a missing number raises TypeError.
ValidatorRaises(f) ==
    f.id_type \in {"aadhaar", "voter_id", "pan"} /\ f.id_number = NoneNum

FormatOk(f) ==
    CASE f.id_type = "aadhaar" -> validate_aadhaar(f.id_number)
      [] f.id_type = "voter_id" -> validate_voter_id(f.id_number)
      [] f.id_type = "pan" -> validate_pan(f.id_number)
      [] OTHER -> TRUE

\* f"{id_type}_{id_number}_{uuid.uuid4()}.jpg" under id_proofs/. The uuid4 of a
\* file name is a token that no stored file and no row holds: the least one.
ProofName(f, tok) == <<"id_proofs", f.id_type, f.id_number, tok>>
TokInUse(f, tok) ==
    \/ ProofName(f, tok) \in uploads
    \/ \E u \in users : u.id_proof_image = ProofName(f, tok)
FreshTok(f) ==
    CHOOSE t \in 1..(Cardinality(uploads) + Cardinality(users) + 1) :
        /\ ~TokInUse(f, t)
        /\ \A k \in 1..(t - 1) : TokInUse(f, k)

UserRow(id, f, img) ==
    [id |-> id, username |-> f.username, email |-> f.email,
     password |-> generate_password_hash(f.password), is_admin |-> FALSE,
     id_type |-> f.id_type, id_number |-> f.id_number, id_proof_image |-> img,
     is_verified |-> FALSE]
NewUser(f, img) == UserRow(NextId(users), f, img)

\* The outcome of the checks of register, in the order of the code; "insert"
\* when all of them pass.
RegisterChecks(f) ==
    IF f.password # f.confirm_password THEN "PasswordMismatch"
    ELSE IF \E u \in users : u.username = f.username THEN "UsernameTaken"
    ELSE IF \E u \in users : u.email = f.email THEN "EmailTaken"
    ELSE IF ~verificationRequired THEN "ServerError"  \* id_proof_image is unbound
    ELSE IF ValidatorRaises(f) THEN "ServerError"
    ELSE IF ~FormatOk(f) THEN "InvalidDocumentFormat"
    ELSE IF \E u \in users : u.id_type = f.id_type /\ u.id_number = f.id_number
         THEN (IF f.id_type = NoneStr THEN "ServerError"  \* None.upper()
               ELSE "DocumentAlreadyRegistered")
    ELSE "insert"

register(c, i) ==
    LET f == Forms[i]
        res == RegisterChecks(f) IN
    /\ IF res # "insert"
       THEN /\ Done("register", c, i, res)
            /\ UNCHANGED <<users, uploads, uuidCtr>>
       ELSE /\ IF f.has_proof
               THEN /\ uploads' = uploads \cup {ProofName(f, FreshTok(f))}
                    /\ users' = users \cup {NewUser(f, ProofName(f, FreshTok(f)))}
               ELSE /\ UNCHANGED uploads
                    /\ users' = users \cup {NewUser(f, NoFile)}
            /\ UNCHANGED uuidCtr
            /\ Done("register", c, i, "ok")
    /\ UNCHANGED <<candidates, votes, elections, session, verificationRequired, reqs>>

\* The username/password pairs tried at /login.
Logins ==
    << <<"admin", "admin123">>, <<"admin", "pw1">>, <<"alice", "pw1">>,
       <<"alice", "pw2">>, <<"bob", "pw1">> >>

\* The outcome of authenticate: an error, or "ok".
LoginChecks(username, password) ==
    IF ~\E u \in users : u.username = username THEN "InvalidCredentials"
    ELSE LET user == CHOOSE u \in users : u.username = username IN
         IF ~check_password_hash(user.password, password) THEN "InvalidCredentials"
         ELSE IF verificationRequired /\ ~user.is_admin /\ ~user.is_verified
              THEN "PendingVerification"
         ELSE "ok"

login(c, i) ==
    LET username == Logins[i][1]
        password == Logins[i][2]
        res == LoginChecks(username, password) IN
    /\ IF res = "ok"
       THEN session' = [session EXCEPT ![c] =
                            (CHOOSE u \in users : u.username = username).id]
       ELSE UNCHANGED session
    /\ Done("login", c, i, res)
    /\ UNCHANGED <<store, uuidCtr, verificationRequired, reqs>>

logout(c) ==
    /\ IF is_authenticated(c)
       THEN /\ session' = [session EXCEPT ![c] = Anonymous]
            /\ Done("logout", c, 0, "ok")
       ELSE /\ UNCHANGED session
            /\ Done("logout", c, 0, "LoginRequired")
    /\ UNCHANGED <<store, uuidCtr, verificationRequired, reqs>>

\* A vote handler that does not look for an existing vote.
VoteChecksNoExisting(c, candidate_id) ==
    IF ~is_authenticated(c) THEN "LoginRequired"
    ELSE IF verificationRequired /\ ~current_user(c).is_verified THEN "NotVerified"
    ELSE IF ~Has(candidates, candidate_id) THEN "CandidateNotFound"
    ELSE "insert"

\* A vote handler that looks the candidate up before the existing vote.
VoteChecksCandidateFirst(c, candidate_id) ==
    IF ~is_authenticated(c) THEN "LoginRequired"
    ELSE IF verificationRequired /\ ~current_user(c).is_verified THEN "NotVerified"
    ELSE IF ~Has(candidates, candidate_id) THEN "CandidateNotFound"
    ELSE IF \E v \in votes : v.user_id = current_user(c).id THEN "AlreadyVoted"
    ELSE "insert"

\* A vote handler that asks for an active election.
VoteChecksActiveElection(c, candidate_id) ==
    IF ~is_authenticated(c) THEN "LoginRequired"
    ELSE IF verificationRequired /\ ~current_user(c).is_verified THEN "NotVerified"
    ELSE IF ~\E e \in elections : e.is_active THEN "NoActiveElection"
    ELSE IF \E v \in votes : v.user_id = current_user(c).id THEN "AlreadyVoted"
    ELSE IF ~Has(candidates, candidate_id) THEN "CandidateNotFound"
    ELSE "insert"

\* A vote handler that lets administrators pass the verification test, as
\* login does.
VoteChecksAdminBypass(c, candidate_id) ==
    IF ~is_authenticated(c) THEN "LoginRequired"
    ELSE IF verificationRequired /\ ~current_user(c).is_admin
                /\ ~current_user(c).is_verified THEN "NotVerified"
    ELSE IF \E v \in votes : v.user_id = current_user(c).id THEN "AlreadyVoted"
    ELSE IF ~Has(candidates, candidate_id) THEN "CandidateNotFound"
    ELSE "insert"

\* The checks of /vote in the order of the code; "insert" when all pass.
VoteChecks(c, candidate_id) ==
    IF ~is_authenticated(c) THEN "LoginRequired"
    ELSE IF verificationRequired /\ ~current_user(c).is_verified THEN "NotVerified"
    ELSE IF \E v \in votes : v.user_id = current_user(c).id THEN "AlreadyVoted"
    ELSE IF ~Has(candidates, candidate_id) THEN "CandidateNotFound"
    ELSE "insert"

NewVote(user_id, candidate_id, code) ==
    [id |-> NextId(votes), user_id |-> user_id, candidate_id |-> candidate_id,
     confirmation_code |-> code]

\* A vote whose confirmation code is derived from its row id.
vote_code_from_id(c, candidate_id) ==
    LET res == VoteChecks(c, candidate_id) IN
    /\ IF res # "insert"
       THEN /\ Done("vote", c, candidate_id, res)
            /\ UNCHANGED <<votes, uuidCtr>>
       ELSE /\ uuidCtr < MaxUuid
            /\ uuidCtr' = uuidCtr + 1
            /\ votes' = votes \cup {NewVote(current_user(c).id, candidate_id, NextId(votes))}
            /\ Done("vote", c, candidate_id, "ok")
    /\ UNCHANGED <<users, candidates, elections, uploads, session,
                   verificationRequired, reqs>>

\* default=lambda: str(uuid.uuid4()): the code of a new vote is a value that
\* uuid4 has not returned before (the uuidCtr-th draw is uuidCtr).
vote(c, candidate_id) ==
    LET res == VoteChecks(c, candidate_id) IN
    /\ IF res # "insert"
       THEN /\ Done("vote", c, candidate_id, res)
            /\ UNCHANGED <<votes, uuidCtr>>
       ELSE /\ uuidCtr < MaxUuid
            /\ uuidCtr' = uuidCtr + 1
            /\ votes' = votes \cup {NewVote(current_user(c).id, candidate_id, uuidCtr + 1)}
            /\ Done("vote", c, candidate_id, "ok")
    /\ UNCHANGED <<users, candidates, elections, uploads, session,
                   verificationRequired, reqs>>

\* @login_required, then "if not current_user.is_admin": the first lines of
\* every admin handler.
AdminGate(c) ==
    IF ~is_authenticated(c) THEN "LoginRequired"
    ELSE IF ~current_user(c).is_admin THEN "Unauthorized"
    ELSE "pass"

RefusedF(op, c, arg, flag, res) ==
    /\ DoneF(op, c, arg, flag, res)
    /\ UNCHANGED <<store, session, uuidCtr, verificationRequired, reqs>>
Refused(op, c, arg, res) == RefusedF(op, c, arg, FALSE, res)

make_admin(c, user_id) ==
    IF AdminGate(c) # "pass" THEN Refused("make_admin", c, user_id, AdminGate(c))
    ELSE IF ~Has(users, user_id) THEN Refused("make_admin", c, user_id, "NotFound")
    ELSE /\ users' = (users \ {Get(users, user_id)})
                        \cup {[Get(users, user_id) EXCEPT !.is_admin = TRUE]}
         /\ Done("make_admin", c, user_id, "ok")
         /\ UNCHANGED <<candidates, votes, elections, uploads, session, uuidCtr,
                        verificationRequired, reqs>>

\* An approve that also sets the administrator flag.
verify_user_sets_admin(c, user_id) ==
    IF AdminGate(c) # "pass" THEN Refused("verify_user", c, user_id, AdminGate(c))
    ELSE IF ~Has(users, user_id) THEN Refused("verify_user", c, user_id, "NotFound")
    ELSE /\ users' = (users \ {Get(users, user_id)})
                        \cup {[Get(users, user_id) EXCEPT !.is_verified = TRUE,
                                                          !.is_admin = TRUE]}
         /\ Done("verify_user", c, user_id, "ok")
         /\ UNCHANGED <<candidates, votes, elections, uploads, session, uuidCtr,
                        verificationRequired, reqs>>

verify_user(c, user_id) ==
    IF AdminGate(c) # "pass" THEN Refused("verify_user", c, user_id, AdminGate(c))
    ELSE IF ~Has(users, user_id) THEN Refused("verify_user", c, user_id, "NotFound")
    ELSE /\ users' = (users \ {Get(users, user_id)})
                        \cup {[Get(users, user_id) EXCEPT !.is_verified = TRUE]}
         /\ Done("verify_user", c, user_id, "ok")
         /\ UNCHANGED <<candidates, votes, elections, uploads, session, uuidCtr,
                        verificationRequired, reqs>>

\* A reject handler that leaves the proof image in the upload folder.
reject_user_keeps_file(c, user_id) ==
    IF AdminGate(c) # "pass" THEN Refused("reject_user", c, user_id, AdminGate(c))
    ELSE IF ~Has(users, user_id) THEN Refused("reject_user", c, user_id, "NotFound")
    ELSE /\ users' = users \ {Get(users, user_id)}
         /\ votes' = {v \in votes : v.user_id # user_id}
         /\ Done("reject_user", c, user_id, "ok")
         /\ UNCHANGED <<candidates, elections, uploads, session, uuidCtr,
                        verificationRequired, reqs>>

\* A reject handler that looks the account up before it checks the caller.
reject_user_lookup_first(c, user_id) ==
    IF ~is_authenticated(c) THEN Refused("reject_user", c, user_id, "LoginRequired")
    ELSE IF ~Has(users, user_id) THEN Refused("reject_user", c, user_id, "NotFound")
    ELSE IF ~current_user(c).is_admin
    THEN Refused("reject_user", c, user_id, "Unauthorized")
    ELSE LET user == Get(users, user_id) IN
         /\ uploads' = IF user.id_proof_image # NoFile
                       THEN uploads \ {user.id_proof_image} ELSE uploads
         /\ users' = users \ {user}
         /\ votes' = {v \in votes : v.user_id # user_id}
         /\ Done("reject_user", c, user_id, "ok")
         /\ UNCHANGED <<candidates, elections, session, uuidCtr,
                        verificationRequired, reqs>>

reject_user(c, user_id) ==
    IF AdminGate(c) # "pass" THEN Refused("reject_user", c, user_id, AdminGate(c))
    ELSE IF ~Has(users, user_id) THEN Refused("reject_user", c, user_id, "NotFound")
    ELSE LET user == Get(users, user_id) IN
         \* os.remove of the proof image, then delete with the cascade on votes
         /\ uploads' = IF user.id_proof_image # NoFile
                       THEN uploads \ {user.id_proof_image} ELSE uploads
         /\ users' = users \ {user}
         /\ votes' = {v \in votes : v.user_id # user_id}
         /\ Done("reject_user", c, user_id, "ok")
         /\ UNCHANGED <<candidates, elections, session, uuidCtr,
                        verificationRequired, reqs>>

\* werkzeug's secure_filename on an uploaded file's name, given as the tuple
\* of its path segments: ".." segments and the separators do not survive.
secure_filename(raw) == SelectSeq(raw, LAMBDA x : x # "..")

\* The files tried as candidate image; the empty name is "no file chosen".
Images == << <<>>, <<"a.jpg">>, <<"..", "a.jpg">> >>

\* present is FALSE when the form lacks name or party (NOT NULL fails at
\* commit, after the file was saved); the columns name, party and bio, which no
\* handler reads, are not kept in the rows.
add_candidate(c, present, img) ==
    IF AdminGate(c) # "pass" THEN Refused("add_candidate", c, 0, AdminGate(c))
    ELSE LET image_filename == secure_filename(Images[img]) IN
         /\ uploads' = IF Images[img] # NoFile
                       THEN uploads \cup {image_filename} ELSE uploads
         /\ IF present
            THEN /\ candidates' = candidates \cup
                        {[id |-> NextId(candidates), image |-> image_filename]}
                 /\ Done("add_candidate", c, 0, "ok")
            ELSE /\ UNCHANGED candidates
                 /\ Done("add_candidate", c, 0, "ServerError")
         /\ UNCHANGED <<users, votes, elections, session, uuidCtr,
                        verificationRequired, reqs>>

edit_candidate(c, candidate_id, present, img) ==
    IF AdminGate(c) # "pass"
    THEN Refused("edit_candidate", c, candidate_id, AdminGate(c))
    ELSE IF ~Has(candidates, candidate_id)
    THEN Refused("edit_candidate", c, candidate_id, "NotFound")
    ELSE LET candidate == Get(candidates, candidate_id)
             image_filename == secure_filename(Images[img])
             \* save the new image, then remove the old one
             saved == uploads \cup {image_filename}
             edited == [candidate EXCEPT
                          !.image = IF Images[img] # NoFile
                                    THEN image_filename ELSE @] IN
         /\ uploads' = IF Images[img] = NoFile THEN uploads
                       ELSE IF candidate.image # NoFile
                            THEN saved \ {candidate.image} ELSE saved
         /\ IF present
            THEN /\ candidates' = (candidates \ {candidate}) \cup {edited}
                 /\ Done("edit_candidate", c, candidate_id, "ok")
            ELSE /\ UNCHANGED candidates
                 /\ Done("edit_candidate", c, candidate_id, "ServerError")
         /\ UNCHANGED <<users, votes, elections, session, uuidCtr,
                        verificationRequired, reqs>>

\* A delete that is refused while votes name the candidate.
delete_candidate_refuses_voted(c, candidate_id) ==
    IF AdminGate(c) # "pass"
    THEN Refused("delete_candidate", c, candidate_id, AdminGate(c))
    ELSE IF ~Has(candidates, candidate_id)
    THEN Refused("delete_candidate", c, candidate_id, "NotFound")
    ELSE IF \E v \in votes : v.candidate_id = candidate_id
    THEN Refused("delete_candidate", c, candidate_id, "ServerError")
    ELSE LET candidate == Get(candidates, candidate_id) IN
         /\ uploads' = IF candidate.image # NoFile
                       THEN uploads \ {candidate.image} ELSE uploads
         /\ candidates' = candidates \ {candidate}
         /\ Done("delete_candidate", c, candidate_id, "ok")
         /\ UNCHANGED <<users, votes, elections, session, uuidCtr,
                        verificationRequired, reqs>>

\* A delete without the cascade on the candidate's votes.
delete_candidate_keeps_votes(c, candidate_id) ==
    IF AdminGate(c) # "pass"
    THEN Refused("delete_candidate", c, candidate_id, AdminGate(c))
    ELSE IF ~Has(candidates, candidate_id)
    THEN Refused("delete_candidate", c, candidate_id, "NotFound")
    ELSE LET candidate == Get(candidates, candidate_id) IN
         /\ uploads' = IF candidate.image # NoFile
                       THEN uploads \ {candidate.image} ELSE uploads
         /\ candidates' = candidates \ {candidate}
         /\ Done("delete_candidate", c, candidate_id, "ok")
         /\ UNCHANGED <<users, votes, elections, session, uuidCtr,
                        verificationRequired, reqs>>

delete_candidate(c, candidate_id) ==
    IF AdminGate(c) # "pass"
    THEN Refused("delete_candidate", c, candidate_id, AdminGate(c))
    ELSE IF ~Has(candidates, candidate_id)
    THEN Refused("delete_candidate", c, candidate_id, "NotFound")
    ELSE LET candidate == Get(candidates, candidate_id) IN
         /\ uploads' = IF candidate.image # NoFile
                       THEN uploads \ {candidate.image} ELSE uploads
         /\ candidates' = candidates \ {candidate}
         /\ votes' = {v \in votes : v.candidate_id # candidate_id}
         /\ Done("delete_candidate", c, candidate_id, "ok")
         /\ UNCHANGED <<users, elections, session, uuidCtr,
                        verificationRequired, reqs>>

\* query(Candidate).all(): the rows in rowid order, as the sequence of ids.
RECURSIVE AllIds(_)
AllIds(table) ==
    IF table = {} THEN <<>>
    ELSE LET m == Max(Ids(table)) IN
         Append(AllIds({row \in table : row.id # m}), m)

\* query(Vote).filter_by(candidate_id=...).count()
vote_count(candidate_id) == Cardinality({v \in votes : v.candidate_id = candidate_id})

\* The entries in the order of the loop over the candidates.
Entries ==
    LET ids == AllIds(candidates) IN
    [i \in 1..Len(ids) |-> [candidate |-> ids[i], votes |-> vote_count(ids[i])]]

\* x put into a list sorted by votes descending, before the entries it ties with.
InsertBeforeTies(x, sorted) ==
    LET k == Cardinality({i \in 1..Len(sorted) : sorted[i].votes > x.votes}) IN
    SubSeq(sorted, 1, k) \o <<x>> \o SubSeq(sorted, k + 1, Len(sorted))

\* x put into a list sorted by votes descending, behind the entries it ties with.
Insert(x, sorted) ==
    LET k == Cardinality({i \in 1..Len(sorted) : sorted[i].votes >= x.votes}) IN
    SubSeq(sorted, 1, k) \o <<x>> \o SubSeq(sorted, k + 1, Len(sorted))

\* A descending sort that reverses the entries with equal votes (an ascending
\* sort, reversed).
RECURSIVE sort_reversing_ties(_)
sort_reversing_ties(results) ==
    IF results = <<>> THEN <<>>
    ELSE InsertBeforeTies(results[Len(results)],
                          sort_reversing_ties(SubSeq(results, 1, Len(results) - 1)))

\* list.sort(key=votes, reverse=True): descending, and stable (entries with
\* equal votes keep the order they had).
RECURSIVE sort(_)
sort(results) ==
    IF results = <<>> THEN <<>>
    ELSE Insert(results[Len(results)], sort(SubSeq(results, 1, Len(results) - 1)))

\* The tally /admin/results renders.
Tally == [NoPage EXCEPT !.results = sort(Entries), !.total_votes = Cardinality(votes)]

admin_results(c) ==
    IF AdminGate(c) # "pass" THEN Refused("admin_results", c, 0, AdminGate(c))
    ELSE /\ DoneP("admin_results", c, 0, FALSE, "ok", Tally)
         /\ UNCHANGED <<store, session, uuidCtr, verificationRequired, reqs>>

\* A lookup behind @login_required.
verify_vote_login_required(c, confirmation_code) ==
    /\ IF ~is_authenticated(c)
       THEN Done("verify_vote", c, confirmation_code, "LoginRequired")
       ELSE IF ~\E v \in votes : v.confirmation_code = confirmation_code
       THEN Done("verify_vote", c, confirmation_code, "NotFound")
       ELSE LET v == CHOOSE v \in votes : v.confirmation_code = confirmation_code IN
            DoneP("verify_vote", c, confirmation_code, FALSE, "ok",
                  [NoPage EXCEPT
                     !.vote = {v},
                     !.candidate = {x \in candidates : x.id = v.candidate_id},
                     !.user = {u \in users : u.id = v.user_id}])
    /\ UNCHANGED <<store, session, uuidCtr, verificationRequired, reqs>>

\* /verify_vote/<confirmation_code>: no login is asked for.
verify_vote(c, confirmation_code) ==
    /\ IF ~\E v \in votes : v.confirmation_code = confirmation_code
       THEN Done("verify_vote", c, confirmation_code, "NotFound")
       ELSE LET v == CHOOSE v \in votes : v.confirmation_code = confirmation_code IN
            DoneP("verify_vote", c, confirmation_code, FALSE, "ok",
                  [NoPage EXCEPT
                     !.vote = {v},
                     !.candidate = {x \in candidates : x.id = v.candidate_id},
                     !.user = {u \in users : u.id = v.user_id}])
    /\ UNCHANGED <<store, session, uuidCtr, verificationRequired, reqs>>

\* The elections that are active, set inactive.
Deactivated(table) == {[e EXCEPT !.is_active = FALSE] : e \in table}

\* parsable is FALSE when strptime raises on start_date or end_date, or the
\* title is missing: the request ends in an error before any commit.
add_election(c, is_active, parsable) ==
    IF AdminGate(c) # "pass"
    THEN RefusedF("add_election", c, 0, is_active, AdminGate(c))
    ELSE IF ~parsable THEN RefusedF("add_election", c, 0, is_active, "ServerError")
    ELSE /\ elections' = (IF is_active THEN Deactivated(elections) ELSE elections)
                            \cup {[id |-> NextId(elections), is_active |-> is_active]}
         /\ DoneF("add_election", c, NextId(elections), is_active, "ok")
         /\ UNCHANGED <<users, candidates, votes, uploads, session, uuidCtr,
                        verificationRequired, reqs>>

\* An edit handler that activates without deactivating the others.
edit_election_keeps_others(c, election_id, new_is_active, parsable) ==
    IF AdminGate(c) # "pass"
    THEN RefusedF("edit_election", c, election_id, new_is_active, AdminGate(c))
    ELSE IF ~Has(elections, election_id)
    THEN RefusedF("edit_election", c, election_id, new_is_active, "NotFound")
    ELSE IF ~parsable
    THEN RefusedF("edit_election", c, election_id, new_is_active, "ServerError")
    ELSE LET election == Get(elections, election_id) IN
         /\ elections' = (elections \ {election})
                            \cup {[election EXCEPT !.is_active = new_is_active]}
         /\ DoneF("edit_election", c, election_id, new_is_active, "ok")
         /\ UNCHANGED <<users, candidates, votes, uploads, session, uuidCtr,
                        verificationRequired, reqs>>

edit_election(c, election_id, new_is_active, parsable) ==
    IF AdminGate(c) # "pass"
    THEN RefusedF("edit_election", c, election_id, new_is_active, AdminGate(c))
    ELSE IF ~Has(elections, election_id)
    THEN RefusedF("edit_election", c, election_id, new_is_active, "NotFound")
    ELSE IF ~parsable
    THEN RefusedF("edit_election", c, election_id, new_is_active, "ServerError")
    ELSE LET election == Get(elections, election_id)
             others == elections \ {election} IN
         /\ elections' =
                (IF new_is_active /\ ~election.is_active
                 THEN Deactivated(others) ELSE others)
                    \cup {[election EXCEPT !.is_active = new_is_active]}
         /\ DoneF("edit_election", c, election_id, new_is_active, "ok")
         /\ UNCHANGED <<users, candidates, votes, uploads, session, uuidCtr,
                        verificationRequired, reqs>>

delete_election(c, election_id) ==
    IF AdminGate(c) # "pass"
    THEN Refused("delete_election", c, election_id, AdminGate(c))
    ELSE IF ~Has(elections, election_id)
    THEN Refused("delete_election", c, election_id, "NotFound")
    ELSE /\ elections' = elections \ {Get(elections, election_id)}
         /\ Done("delete_election", c, election_id, "ok")
         /\ UNCHANGED <<users, candidates, votes, uploads, session, uuidCtr,
                        verificationRequired, reqs>>

---------------------------------------------------------------------------
(* Requests one at a time: the whole application, one browser. *)
UserIds == 1..3
CandidateIds == 1..(MaxCandidates + 1)
ElectionIds == 1..(MaxElections + 1)
SpecForms == {1}
SpecLogins == {1, 3, 4}
SpecImages == {1, 2}

Next ==
    \E c \in {"c1"} :
        \/ \E i \in SpecForms : register(c, i)
        \/ \E i \in SpecLogins : login(c, i)
        \/ logout(c)
        \/ \E id \in CandidateIds : vote(c, id)
        \/ \E id \in UserIds : make_admin(c, id)
        \/ \E id \in UserIds : verify_user(c, id)
        \/ \E id \in UserIds : reject_user(c, id)
        \/ \E p \in BOOLEAN, img \in SpecImages :
               Cardinality(candidates) < MaxCandidates /\ add_candidate(c, p, img)
        \/ \E id \in CandidateIds, p \in BOOLEAN, img \in SpecImages :
               edit_candidate(c, id, p, img)
        \/ \E id \in CandidateIds : delete_candidate(c, id)
        \/ admin_results(c)
        \/ \E a \in BOOLEAN, p \in BOOLEAN :
               Cardinality(elections) < MaxElections /\ add_election(c, a, p)
        \/ \E id \in ElectionIds, a \in BOOLEAN, p \in BOOLEAN :
               edit_election(c, id, a, p)
        \/ \E id \in ElectionIds : delete_election(c, id)

Spec == Init /\ [][Next]_vars

---------------------------------------------------------------------------
(* Properties of the requests run one at a time. *)

VotesOf(user_id) == {v \in votes : v.user_id = user_id}
OneVotePerAccount == \A v, w \in votes : v.user_id = w.user_id => v = w

\* The step is a completed request "op".
Step(op) == last'.op = op /\ vars' # vars
\* The account the request's session loads, before the step.
Caller == current_user(last'.client)
HasAccount == is_authenticated(last'.client)

RepeatVoteRefused ==
    (Step("vote") /\ HasAccount /\ VotesOf(Caller.id) # {})
        => (last'.result = "AlreadyVoted" /\ votes' = votes)

\* C1: with requests served one at a time, every account owns at most one vote
\* in every reachable state, and a /vote by an account that already owns a vote
\* ends as AlreadyVoted and leaves the votes as they were.
C1_OneVotePerAccount == [](OneVotePerAccount) /\ [][RepeatVoteRefused]_vars

\* A second /vote of an account was refused; the admin's vote is stored too.
C1_Witness ==
    /\ last.op = "vote" /\ last.result = "AlreadyVoted"
    /\ \E v \in votes : v.user_id = session[last.client]
    /\ Cardinality(votes) = 2

CastVoteContract ==
    (Step("vote") /\ HasAccount) =>
        LET verified == Caller.is_verified \/ ~verificationRequired
            noVote == VotesOf(Caller.id) = {}
            found == Has(candidates, last'.arg)
            res == last'.result IN
        /\ ~verified => res = "NotVerified"
        /\ (verified /\ ~noVote) => res = "AlreadyVoted"
        /\ (verified /\ noVote /\ ~found) => res = "CandidateNotFound"
        /\ (verified /\ noVote /\ found) => res = "ok"
        /\ res # "ok" => UNCHANGED <<votes, users, candidates, elections>>
        /\ res = "ok" =>
              /\ \E v \in votes' \ votes :
                    /\ votes' = votes \cup {v}
                    /\ v.user_id = Caller.id
                    /\ v.candidate_id = last'.arg
              /\ UNCHANGED <<users, candidates, elections>>

\* C8: /vote of a logged-in account stores a vote only when the account is
\* verified (or verification is off), owns no vote and names an existing
\* candidate; otherwise it ends as NotVerified, AlreadyVoted or
\* CandidateNotFound, the first that applies in this order, and changes no
\* table; a stored vote is exactly one new row for the caller and the candidate.
C8_CastVote == [][CastVoteContract]_vars

\* A /vote that names no candidate, by an account that has voted: AlreadyVoted
\* is what is reported.
C8_Witness ==
    /\ last.op = "vote" /\ last.result = "AlreadyVoted"
    /\ ~Has(candidates, last.arg)
    /\ \E v \in votes : v.user_id = session[last.client]

AdminOps ==
    {"verify_user", "reject_user", "make_admin", "add_candidate", "edit_candidate",
     "delete_candidate", "add_election", "edit_election", "delete_election",
     "admin_results"}

NonAdminRefused ==
    (last'.op \in AdminOps /\ vars' # vars /\ HasAccount /\ ~Caller.is_admin)
        => (last'.result = "Unauthorized" /\ UNCHANGED <<store, session>>)

\* C9: every admin operation called by a logged-in account that is not an
\* administrator ends as Unauthorized and leaves the tables and the stored
\* files as they were, whatever id it names (existing or not).
C9_Unauthorized == [][NonAdminRefused]_vars

\* A non-admin's reject of an existing account was refused, with a candidate,
\* an election and a proof image in the store.
C9_Witness ==
    /\ last.op = "reject_user" /\ last.result = "Unauthorized"
    /\ Has(users, last.arg)
    /\ candidates # {} /\ elections # {} /\ uploads # {}

---------------------------------------------------------------------------
(* Accounts only: registration, login and the admin's decisions, from two  *)
(* browsers.                                                               *)
AccountForms == {1, 2}

NextAccounts ==
    \E c \in Clients :
        \/ \E i \in AccountForms : register(c, i)
        \/ \E i \in DOMAIN Logins : login(c, i)
        \/ logout(c)
        \/ \E id \in UserIds : make_admin(c, id)
        \/ \E id \in UserIds : verify_user(c, id)
        \/ \E id \in UserIds : reject_user(c, id)

SpecAccounts == Init /\ [][NextAccounts]_vars

Named(username) == {u \in users : u.username = username}

LoginContract ==
    Step("login") =>
        LET username == Logins[last'.arg][1]
            password == Logins[last'.arg][2]
            c == last'.client
            res == last'.result
            matches == {u \in Named(username) :
                            u.password = generate_password_hash(password)} IN
        /\ matches = {} => (res = "InvalidCredentials" /\ session' = session)
        /\ \A u \in matches :
              IF verificationRequired /\ ~u.is_admin /\ ~u.is_verified
              THEN res = "PendingVerification" /\ session' = session
              ELSE res = "ok" /\ session' = [session EXCEPT ![c] = u.id]

\* No step binds a browser's session to an account that is neither an
\* administrator nor verified.
NoSessionBeforeApproval ==
    \A c \in Clients :
        (verificationRequired /\ session'[c] # session[c] /\ Has(users, session'[c]))
            => (Get(users, session'[c]).is_admin \/ Get(users, session'[c]).is_verified)

\* Every login follows the contract, and no step binds a session to an
\* unapproved account.
LoginFollowsContract == [][LoginContract /\ NoSessionBeforeApproval]_vars

\* Every session that loads an account loads an administrator or a verified one.
SessionsApproved ==
    \A c \in Clients :
        (verificationRequired /\ is_authenticated(c))
            => (current_user(c).is_admin \/ current_user(c).is_verified)

\* C7: login ends as InvalidCredentials for an unknown username or a wrong
\* password, else as PendingVerification when verification is required and
\* the account is neither administrator nor verified, else it binds the
\* browser's session to the account; so, with verification required, no
\* session is that of a non-admin account that no administrator has approved.
C7_Authenticate == [](SessionsApproved) /\ [][LoginContract]_vars

RejectContract ==
    (Step("reject_user") /\ AdminGate(last'.client) = "pass") =>
        IF Has(users, last'.arg)
        THEN LET user == Get(users, last'.arg) IN
             /\ last'.result = "ok"
             /\ users' = users \ {user}
             /\ uploads' = uploads \ {user.id_proof_image}
             /\ user.id_proof_image \notin uploads'
             /\ ~Has(users', last'.arg)
             /\ \A i \in DOMAIN Logins :
                   Logins[i][1] = user.username
                       => LoginChecks(Logins[i][1], Logins[i][2])' = "InvalidCredentials"
        ELSE /\ last'.result = "NotFound"
             /\ UNCHANGED <<store, session>>

\* While no account holds a username, a login with it is InvalidCredentials.
NoAccountNoLogin ==
    \A i \in DOMAIN Logins :
        Named(Logins[i][1]) = {}
            => LoginChecks(Logins[i][1], Logins[i][2]) = "InvalidCredentials"

\* C10: an administrator's reject of an existing account removes the row and
\* its proof image; from then on (until the username is registered again) a
\* login with the account's credentials is InvalidCredentials, the id names no
\* account, and an administrator's reject of an id that names no account ends
\* as NotFound and changes nothing.
C10_Reject == [](NoAccountNoLogin) /\ [][RejectContract]_vars

\* bob holds id 3 and nobody holds id 2: alice (the one form that can take id
\* 2 before bob, with a proof image) was rejected; her image is gone and a login
\* with her credentials ended as InvalidCredentials.
C10_Witness ==
    /\ last.op = "login" /\ last.result = "InvalidCredentials"
    /\ Logins[last.arg] = <<"alice", "pw1">>
    /\ \E u \in Named("bob") : u.id = 3
    /\ ~Has(users, 2)
    /\ uploads = {}

---------------------------------------------------------------------------
(* Elections only: the administrator adds, edits and deletes elections.    *)
ElectionRowIds == 1..(MaxElectionRows + 1)

NextElection ==
    \E c \in {"c1"} :
        \/ login(c, 1)
        \/ logout(c)
        \/ \E a \in BOOLEAN, p \in BOOLEAN :
               Cardinality(elections) < MaxElectionRows /\ add_election(c, a, p)
        \/ \E id \in ElectionRowIds, a \in BOOLEAN, p \in BOOLEAN :
               edit_election(c, id, a, p)
        \/ \E id \in ElectionRowIds : delete_election(c, id)

SpecElection == Init /\ [][NextElection]_vars

Active(table) == {e \in table : e.is_active}
AtMostOneActive == Cardinality(Active(elections)) <= 1

ActivationContract ==
    (last'.op \in {"add_election", "edit_election"} /\ vars' # vars
        /\ last'.result = "ok" /\ last'.flag)
        => Active(elections') = {e \in elections' : e.id = last'.arg}
           /\ Has(elections', last'.arg)

\* C3: with the election requests served one at a time, at most one election
\* is active in every reachable state, and right after an add or an edit that
\* asks for activation the election it names is the one active election.
C3_SingleActive == [](AtMostOneActive) /\ [][ActivationContract]_vars

\* An edit has just activated election 1 while elections 2 and 3 exist.
C3_Witness ==
    /\ last.op = "edit_election" /\ last.result = "ok" /\ last.flag
    /\ last.arg = 1
    /\ Ids(elections) = {1, 2, 3}
    /\ Active(elections) = {Get(elections, 1)}

---------------------------------------------------------------------------
(* Requests that interleave. A request in flight is a record of reqs: the  *)
(* handler (kind), the browser, the id in the URL or the index of the form *)
(* (arg), the is_active checkbox (flag), where the handler stands (pc) and *)
(* what its ORM session has loaded: the id of current_user (uid), the ids  *)
(* of the elections it read as active (loaded) and the is_active it read   *)
(* for the election it edits (snap); file is the proof image a register    *)
(* has saved. A handler's statements run in order; each SELECT and each    *)
(* commit is one step on the committed store.                              *)
Req(kind, c, arg, flag) ==
    [kind |-> kind, client |-> c, arg |-> arg, flag |-> flag, pc |-> "start",
     uid |-> Anonymous, loaded |-> {}, snap |-> FALSE, file |-> NoFile,
     result |-> ""]

Start(kind, c, arg, flag) ==
    /\ Len(reqs) < MaxReqs
    /\ reqs' = Append(reqs, Req(kind, c, arg, flag))
    /\ UNCHANGED <<store, session, uuidCtr, verificationRequired, last>>

At(r, kind, pc) == reqs[r].kind = kind /\ reqs[r].pc = pc
Goto(r, pc) == reqs' = [reqs EXCEPT ![r].pc = pc]
\* The request ends: its outcome is kept in reqs and becomes "last".
Finish(r, res) ==
    /\ reqs' = [reqs EXCEPT ![r].pc = "done", ![r].result = res]
    /\ DoneF(reqs[r].kind, reqs[r].client, reqs[r].arg, reqs[r].flag, res)
Finished(r) == reqs[r].pc = "done"
AllFinished == Len(reqs) = MaxReqs /\ \A r \in DOMAIN reqs : Finished(r)

(* /vote, statement by statement. *)
vote_start(c, candidate_id) == Start("vote", c, candidate_id, FALSE)

\* @login_required and the is_verified test on the loaded current_user
vote_verified(r) ==
    /\ At(r, "vote", "start")
    /\ LET c == reqs[r].client IN
       IF ~is_authenticated(c) THEN Finish(r, "LoginRequired")
       ELSE IF verificationRequired /\ ~current_user(c).is_verified
       THEN Finish(r, "NotVerified")
       ELSE /\ reqs' = [reqs EXCEPT ![r].pc = "existing", ![r].uid = load_user(c)]
            /\ UNCHANGED last
    /\ UNCHANGED <<store, session, uuidCtr, verificationRequired>>

\* existing_vote = query(Vote).filter_by(user_id=current_user.id).first()
vote_existing(r) ==
    /\ At(r, "vote", "existing")
    /\ IF \E v \in votes : v.user_id = reqs[r].uid
       THEN Finish(r, "AlreadyVoted")
       ELSE Goto(r, "candidate") /\ UNCHANGED last
    /\ UNCHANGED <<store, session, uuidCtr, verificationRequired>>

\* candidate = db.session.get(Candidate, candidate_id)
vote_candidate(r) ==
    /\ At(r, "vote", "candidate")
    /\ IF ~Has(candidates, reqs[r].arg)
       THEN Finish(r, "CandidateNotFound")
       ELSE Goto(r, "commit") /\ UNCHANGED last
    /\ UNCHANGED <<store, session, uuidCtr, verificationRequired>>

\* add(new_vote); commit(): the INSERT meets one UNIQUE column,
\* confirmation_code, and a fresh uuid4 never violates it; user_id and
\* candidate_id carry no constraint that SQLite enforces.
vote_commit(r) ==
    /\ At(r, "vote", "commit")
    /\ uuidCtr < MaxUuid
    /\ uuidCtr' = uuidCtr + 1
    /\ votes' = votes \cup {NewVote(reqs[r].uid, reqs[r].arg, uuidCtr + 1)}
    /\ Finish(r, "ok")
    /\ UNCHANGED <<users, candidates, elections, uploads, session, verificationRequired>>

\* bob (id 2) is registered and approved, candidates 1 and 2 exist, and each
\* browser is logged in as the administrator or as bob.
BobRow == [UserRow(2, Forms[2], NoFile) EXCEPT !.is_verified = TRUE]

InitVote ==
    /\ users = {AdminRow, BobRow}
    /\ candidates = {[id |-> 1, image |-> NoFile], [id |-> 2, image |-> NoFile]}
    /\ votes = {}
    /\ elections = {}
    /\ uploads = {}
    /\ session \in [Clients -> {1, 2}]
    /\ uuidCtr = 0
    /\ verificationRequired = TRUE
    /\ last = NoRequest
    /\ reqs = <<>>

NextVote ==
    \/ \E c \in Clients, id \in 1..3 : vote_start(c, id)
    \/ \E r \in DOMAIN reqs :
          \/ vote_verified(r)
          \/ vote_existing(r)
          \/ vote_candidate(r)
          \/ vote_commit(r)

SpecVote == InitVote /\ [][NextVote]_vars

\* C2: when /vote requests of one account interleave, the account ends with
\* exactly one stored vote: never two, and one once two requests for existing
\* candidates have both ended.
C2_OneVoteWhenInterleaved ==
    /\ OneVotePerAccount
    /\ \A q, r \in DOMAIN reqs :
          (q # r /\ Finished(q) /\ Finished(r) /\ reqs[q].uid = reqs[r].uid
              /\ reqs[q].uid # Anonymous
              /\ Has(candidates, reqs[q].arg) /\ Has(candidates, reqs[r].arg))
              => Cardinality(VotesOf(reqs[r].uid)) = 1

---------------------------------------------------------------------------
(* /admin/elections/add and /admin/elections/edit/<id>, statement by       *)
(* statement. The edit form resubmits the stored title, description and    *)
(* dates, so the query for the active elections flushes nothing and is a   *)
(* plain SELECT, as it is in add.                                          *)
add_election_start(c, is_active) == Start("add_election", c, 0, is_active)
edit_election_start(c, election_id, new_is_active) ==
    Start("edit_election", c, election_id, new_is_active)

election_gate(r) ==
    /\ reqs[r].kind \in {"add_election", "edit_election"}
    /\ reqs[r].pc = "start"
    /\ LET c == reqs[r].client IN
       IF AdminGate(c) # "pass" THEN Finish(r, AdminGate(c))
       ELSE IF reqs[r].kind = "edit_election" THEN Goto(r, "get") /\ UNCHANGED last
       ELSE IF reqs[r].flag THEN Goto(r, "read") /\ UNCHANGED last
       ELSE Goto(r, "commit") /\ UNCHANGED last
    /\ UNCHANGED <<store, session, uuidCtr, verificationRequired>>

\* election = db.session.get(Election, election_id)
edit_election_get(r) ==
    /\ At(r, "edit_election", "get")
    /\ IF ~Has(elections, reqs[r].arg) THEN Finish(r, "NotFound")
       ELSE LET election == Get(elections, reqs[r].arg) IN
            /\ reqs' = [reqs EXCEPT
                          ![r].snap = election.is_active,
                          ![r].pc = IF reqs[r].flag /\ ~election.is_active
                                    THEN "read" ELSE "commit"]
            /\ UNCHANGED last
    /\ UNCHANGED <<store, session, uuidCtr, verificationRequired>>

\* active_elections = query(Election).filter_by(is_active=True).all()
election_read(r) ==
    /\ reqs[r].kind \in {"add_election", "edit_election"}
    /\ reqs[r].pc = "read"
    /\ reqs' = [reqs EXCEPT ![r].loaded = Ids(Active(elections)), ![r].pc = "commit"]
    /\ UNCHANGED <<store, session, uuidCtr, verificationRequired, last>>

\* The rows of a table with is_active set to b where the id is in ids.
SetActive(table, ids, b) ==
    {IF e.id \in ids THEN [e EXCEPT !.is_active = b] ELSE e : e \in table}

\* commit() of add: an UPDATE per election read as active, and the INSERT.
\* An UPDATE that matches no row makes the flush fail and the request end in
\* an error with nothing written.
add_election_commit(r) ==
    /\ At(r, "add_election", "commit")
    /\ IF ~(reqs[r].loaded \subseteq Ids(elections))
       THEN Finish(r, "ServerError") /\ UNCHANGED elections
       ELSE /\ elections' = SetActive(elections, reqs[r].loaded, FALSE)
                               \cup {[id |-> NextId(elections),
                                      is_active |-> reqs[r].flag]}
            /\ Finish(r, "ok")
    /\ UNCHANGED <<users, candidates, votes, uploads, session, uuidCtr,
                   verificationRequired>>

\* commit() of edit: an UPDATE per other election read as active, and an
\* UPDATE of the edited election's is_active when the form's value differs
\* from the value the handler loaded.
edit_election_commit(r) ==
    /\ At(r, "edit_election", "commit")
    /\ LET id == reqs[r].arg
           off == reqs[r].loaded \ {id}
           written == (IF reqs[r].flag # reqs[r].snap THEN {id} ELSE {}) \cup off IN
       IF ~(written \subseteq Ids(elections))
       THEN Finish(r, "ServerError") /\ UNCHANGED elections
       ELSE /\ elections' =
                  SetActive(SetActive(elections, off, FALSE),
                            IF reqs[r].flag # reqs[r].snap THEN {id} ELSE {},
                            reqs[r].flag)
            /\ Finish(r, "ok")
    /\ UNCHANGED <<users, candidates, votes, uploads, session, uuidCtr,
                   verificationRequired>>

\* The election tables with ids among 1, 2 that hold at most one active
\* election: the tables the requests served one at a time leave behind.
ElectionTables ==
    {t \in SUBSET [id : {1, 2}, is_active : BOOLEAN] :
        /\ \A e, f \in t : e.id = f.id => e = f
        /\ Cardinality(Active(t)) <= 1}

InitElect ==
    /\ users = {AdminRow}
    /\ candidates = {}
    /\ votes = {}
    /\ elections \in ElectionTables
    /\ uploads = {}
    /\ session = [c \in Clients |-> 1]
    /\ uuidCtr = 0
    /\ verificationRequired = TRUE
    /\ last = NoRequest
    /\ reqs = <<>>

NextElect ==
    \/ \E c \in Clients, a \in BOOLEAN : add_election_start(c, a)
    \/ \E c \in Clients, id \in 1..2, a \in BOOLEAN : edit_election_start(c, id, a)
    \/ \E r \in DOMAIN reqs :
          \/ election_gate(r)
          \/ edit_election_get(r)
          \/ election_read(r)
          \/ add_election_commit(r)
          \/ edit_election_commit(r)

SpecElect == InitElect /\ [][NextElect]_vars

\* C4: when add and edit requests that activate an election interleave, no
\* committed state holds two active elections.
C4_SingleActiveWhenInterleaved == AtMostOneActive

---------------------------------------------------------------------------
(* /register, statement by statement. *)
register_start(c, i) == Start("register", c, i, FALSE)

\* the password comparison, and query(User).filter_by(username=...).first()
register_username(r) ==
    /\ At(r, "register", "start")
    /\ LET f == Forms[reqs[r].arg] IN
       IF f.password # f.confirm_password THEN Finish(r, "PasswordMismatch")
       ELSE IF \E u \in users : u.username = f.username
       THEN Finish(r, "UsernameTaken")
       ELSE Goto(r, "email") /\ UNCHANGED last
    /\ UNCHANGED <<store, session, uuidCtr, verificationRequired>>

\* query(User).filter_by(email=...).first()
register_email(r) ==
    /\ At(r, "register", "email")
    /\ IF \E u \in users : u.email = Forms[reqs[r].arg].email
       THEN Finish(r, "EmailTaken")
       ELSE Goto(r, "document") /\ UNCHANGED last
    /\ UNCHANGED <<store, session, uuidCtr, verificationRequired>>

\* the validators, and query(User).filter_by(id_type=..., id_number=...).first()
register_document(r) ==
    /\ At(r, "register", "document")
    /\ LET f == Forms[reqs[r].arg] IN
       IF ~verificationRequired THEN Finish(r, "ServerError")
       ELSE IF ValidatorRaises(f) THEN Finish(r, "ServerError")
       ELSE IF ~FormatOk(f) THEN Finish(r, "InvalidDocumentFormat")
       ELSE IF \E u \in users : u.id_type = f.id_type /\ u.id_number = f.id_number
       THEN Finish(r, IF f.id_type = NoneStr THEN "ServerError"
                      ELSE "DocumentAlreadyRegistered")
       ELSE Goto(r, "upload") /\ UNCHANGED last
    /\ UNCHANGED <<store, session, uuidCtr, verificationRequired>>

\* id_proof.save(id_proof_path)
register_upload(r) ==
    /\ At(r, "register", "upload")
    /\ LET f == Forms[reqs[r].arg] IN
       IF f.has_proof
       THEN /\ uploads' = uploads \cup {ProofName(f, FreshTok(f))}
            /\ reqs' = [reqs EXCEPT ![r].file = ProofName(f, FreshTok(f)),
                                   ![r].pc = "commit"]
       ELSE /\ UNCHANGED uploads
            /\ Goto(r, "commit")
    /\ UNCHANGED <<users, candidates, votes, elections, session, uuidCtr,
                   verificationRequired, last>>

\* A commit on a table whose username and email columns are not UNIQUE.
register_commit_no_unique(r) ==
    /\ At(r, "register", "commit")
    /\ users' = users \cup {NewUser(Forms[reqs[r].arg], reqs[r].file)}
    /\ Finish(r, "ok")
    /\ UNCHANGED <<candidates, votes, elections, uploads, session, uuidCtr,
                   verificationRequired>>

\* add(new_user); commit(): the INSERT fails on the UNIQUE columns username
\* and email (an IntegrityError that nothing catches); id_type and id_number
\* carry no constraint.
register_commit(r) ==
    /\ At(r, "register", "commit")
    /\ LET f == Forms[reqs[r].arg] IN
       IF \E u \in users : u.username = f.username \/ u.email = f.email
       THEN Finish(r, "ServerError") /\ UNCHANGED users
       ELSE /\ users' = users \cup {NewUser(f, reqs[r].file)}
            /\ Finish(r, "ok")
    /\ UNCHANGED <<candidates, votes, elections, uploads, session, uuidCtr,
                   verificationRequired>>

RegForms == {1, 3, 4, 5}

InitReg ==
    /\ users = {AdminRow}
    /\ candidates = {}
    /\ votes = {}
    /\ elections = {}
    /\ uploads = {}
    /\ session = [c \in Clients |-> Anonymous]
    /\ uuidCtr = 0
    /\ verificationRequired = TRUE
    /\ last = NoRequest
    /\ reqs = <<>>

NextReg ==
    \/ \E c \in Clients, i \in RegForms : register_start(c, i)
    \/ \E r \in DOMAIN reqs :
          \/ register_username(r)
          \/ register_email(r)
          \/ register_document(r)
          \/ register_upload(r)
          \/ register_commit(r)

SpecReg == InitReg /\ [][NextReg]_vars

FormOf(r) == Forms[reqs[r].arg]
\* The requests with a username that ended with an account stored.
Winners(username) ==
    {q \in DOMAIN reqs : FormOf(q).username = username /\ reqs[q].result = "ok"}
\* A request that only requests with its own username can stand in the way of:
\* its form is valid, and no other username goes with its email or document.
Unrivalled(r) ==
    /\ FormOf(r).password = FormOf(r).confirm_password
    /\ FormatOk(FormOf(r))
    /\ AdminRow.username # FormOf(r).username
    /\ AdminRow.email # FormOf(r).email
    /\ \A q \in DOMAIN reqs :
          (FormOf(q).email = FormOf(r).email \/ FormOf(q).id_number = FormOf(r).id_number)
              => FormOf(q).username = FormOf(r).username

UniqueUsernameAndEmail ==
    \A u, w \in users : (u.username = w.username \/ u.email = w.email) => u = w

\* C5: when /register requests interleave, no two accounts share a username or
\* an email; of the requests with one username at most one stores an account,
\* and exactly one does once all have ended, when the form is valid and only
\* requests with that username use its email or document.
C5_OneRegistrationPerUsername ==
    /\ UniqueUsernameAndEmail
    /\ \A r \in DOMAIN reqs :
          /\ Cardinality(Winners(FormOf(r).username)) <= 1
          /\ Cardinality(Named(FormOf(r).username))
                = Cardinality(Winners(FormOf(r).username))
          /\ (AllFinished /\ Unrivalled(r))
                => Cardinality(Winners(FormOf(r).username)) = 1

\* Two requests for the username alice, with different emails and documents,
\* both passed the checks; one stored the account and the other's INSERT was
\* rejected by the store.
C5_Witness ==
    /\ AllFinished
    /\ \E q, r \in DOMAIN reqs :
          /\ reqs[q].arg = 1 /\ reqs[r].arg = 3
          /\ {reqs[q].result, reqs[r].result} = {"ok", "ServerError"}
    /\ Cardinality(Named("alice")) = 1

\* C6: no two accounts hold the same document number, and a register whose
\* number is stored under some account (and whose password, username and email
\* pass) ends as DocumentAlreadyRegistered.
C6_UniqueDocumentNumber ==
    /\ \A u, w \in users :
          (u.id_number = w.id_number /\ u.id_number # NoneNum) => u = w
    /\ \A i \in DOMAIN Forms :
          ((\E u \in users : u.id_number = Forms[i].id_number)
              /\ RegisterChecks(Forms[i]) \notin
                    {"PasswordMismatch", "UsernameTaken", "EmailTaken"})
              => RegisterChecks(Forms[i]) = "DocumentAlreadyRegistered"

---------------------------------------------------------------------------
(* Votes and their tally: two verified accounts (the administrator and     *)
(* bob) vote from one browser, the administrator adds and deletes          *)
(* candidates and rejects accounts, anybody looks codes up.                *)
TallyLogins == {1, 5}
TallyCandidateIds == 1..MaxTallyCandidates
Codes == 1..(MaxUuid + 1)

InitTally ==
    /\ users = {AdminRow, BobRow}
    /\ candidates = {}
    /\ votes = {}
    /\ elections = {}
    /\ uploads = {}
    /\ session = [c \in Clients |-> Anonymous]
    /\ uuidCtr = 0
    /\ verificationRequired = TRUE
    /\ last = NoRequest
    /\ reqs = <<>>

NextTally ==
    \/ \E c \in {"c1"} :
          \/ \E i \in TallyLogins : login(c, i)
          \/ logout(c)
          \/ \E id \in TallyCandidateIds : vote(c, id)
          \/ NextId(candidates) <= MaxTallyCandidates /\ add_candidate(c, TRUE, 1)
          \/ \E id \in TallyCandidateIds : delete_candidate(c, id)
          \/ \E id \in UserIds : reject_user(c, id)
          \/ admin_results(c)
    \/ \E c \in Clients, code \in Codes : verify_vote(c, code)

SpecTally == InitTally /\ [][NextTally]_vars

ReferencesExist ==
    \A v \in votes : Has(users, v.user_id) /\ Has(candidates, v.candidate_id)

RECURSIVE SumVotes(_)
SumVotes(results) ==
    IF results = <<>> THEN 0
    ELSE results[1].votes + SumVotes(Tail(results))

\* Every stored vote is counted once by the tally, and nothing else is.
TallyCountsStoredVotes ==
    /\ Tally.total_votes = Cardinality(votes)
    /\ SumVotes(Tally.results) = Cardinality(votes)

\* A delete of a candidate or of an account takes the row's votes with it, and
\* no other vote.
CascadeContract ==
    /\ (Step("delete_candidate") /\ last'.result = "ok") =>
          votes' = {v \in votes : v.candidate_id # last'.arg}
    /\ (Step("reject_user") /\ last'.result = "ok") =>
          votes' = {v \in votes : v.user_id # last'.arg}

\* C11: every stored vote names an existing account and an existing candidate;
\* a delete of a candidate removes exactly the votes for it, so that the tally
\* entries and the total count the votes that are left and no other, and a
\* reject of an account removes exactly that account's votes.
C11_VotesReferenceRows ==
    [](ReferencesExist /\ TallyCountsStoredVotes) /\ [][CascadeContract]_vars

\* Two votes were cast for two candidates; the delete of one candidate took
\* its vote away and the other vote is still stored.
C11_Witness ==
    /\ last.op = "delete_candidate" /\ last.result = "ok"
    /\ uuidCtr = 2
    /\ Cardinality(votes) = 1
    /\ candidates # {}

\* What /admin/results rendered, against the tables (which it leaves alone).
TallyContract ==
    (last.op = "admin_results" /\ last.result = "ok") =>
        LET r == last.page.results IN
        /\ Len(r) = Cardinality(candidates)
        /\ {r[i].candidate : i \in DOMAIN r} = Ids(candidates)
        /\ \A i \in DOMAIN r :
              r[i].votes = Cardinality({v \in votes : v.candidate_id = r[i].candidate})
        /\ \A i, j \in DOMAIN r :
              i < j => \/ r[i].votes > r[j].votes
                       \/ r[i].votes = r[j].votes /\ r[i].candidate < r[j].candidate
        /\ last.page.total_votes = Cardinality(votes)
        /\ last.page.total_votes = SumVotes(r)

\* A new candidate gets an id above those of all stored candidates: among the
\* stored candidates the order of the ids is the order of insertion.
InsertionOrder ==
    \A x \in candidates' \ candidates : \A y \in candidates : y.id < x.id

\* C12: the tally has one entry per stored candidate, with the number of
\* stored votes for it, ordered by votes descending and, for equal votes, in
\* the order the candidates were added; the total is the number of stored
\* votes and the sum of the entries.
C12_Tally == [](TallyContract) /\ [][InsertionOrder]_vars

\* Candidates 1, 2, 3 with 0, 1, 1 votes: the tally lists 2, 3, 1.
C12_Witness ==
    /\ last.op = "admin_results" /\ last.result = "ok"
    /\ last.page.results = << [candidate |-> 2, votes |-> 1],
                              [candidate |-> 3, votes |-> 1],
                              [candidate |-> 1, votes |-> 0] >>
    /\ last.page.total_votes = 2

\* What /verify_vote answered, against the tables (which it leaves alone).
LookupContract ==
    last.op = "verify_vote" =>
        LET found == {v \in votes : v.confirmation_code = last.arg} IN
        IF found = {} THEN last.result = "NotFound" /\ last.page = NoPage
        ELSE /\ last.result = "ok"
             /\ last.page.vote = found
             /\ Cardinality(found) = 1
             /\ \A v \in found :
                   /\ Has(candidates, v.candidate_id) /\ Has(users, v.user_id)
                   /\ last.page.candidate = {Get(candidates, v.candidate_id)}
                   /\ last.page.user = {Get(users, v.user_id)}

\* A cast vote is stored under the caller and the candidate of the request; a
\* stored vote keeps its code, candidate and account, which stay the rows they
\* were; a lookup changes nothing.
CodeKeepsItsVote ==
    /\ (Step("vote") /\ last'.result = "ok") =>
          \A v \in votes' \ votes :
              v.user_id = Caller.id /\ v.candidate_id = last'.arg
    /\ \A v \in votes, w \in votes' :
          v.confirmation_code = w.confirmation_code => v = w
    /\ \A v \in votes \cap votes' :
          /\ Get(users', v.user_id).username = Get(users, v.user_id).username
          /\ Has(candidates', v.candidate_id)
    /\ Step("verify_vote") => UNCHANGED <<store, session, uuidCtr>>

\* C13: while a cast vote is stored, a lookup of its confirmation code, by any
\* caller, returns that vote with the candidate and the account of the cast and
\* changes nothing; a code of no stored vote is NotFound.
C13_LookupByCode == [](LookupContract) /\ [][CodeKeepsItsVote]_vars

\* A browser that is not logged in looked up the second code issued and got
\* bob's vote.
C13_Witness ==
    /\ last.op = "verify_vote" /\ last.result = "ok"
    /\ session[last.client] = Anonymous
    /\ last.arg = 2
    /\ last.page.user = {BobRow}
    /\ Cardinality(votes) = 2

\* The codes issued so far are 1..uuidCtr.
UniqueCodes ==
    /\ \A v, w \in votes : v.confirmation_code = w.confirmation_code => v = w
    /\ \A v \in votes : v.confirmation_code \in 1..uuidCtr

\* The code of a new vote is none of the codes issued before.
CodeNeverReissued ==
    \A v \in votes' \ votes : v.confirmation_code \notin 1..uuidCtr

\* C14: no two stored votes share a confirmation code, and the code of a new
\* vote was never issued before, also not to a vote that a cascade has deleted.
C14_UniqueCodes == [](UniqueCodes) /\ [][CodeNeverReissued]_vars

\* The vote with the first code was deleted by a cascade; the new vote took
\* its row id and a new code.
C14_Witness ==
    /\ last.op = "vote" /\ last.result = "ok"
    /\ \E v \in votes : v.id = 1 /\ v.confirmation_code = 2
    /\ Cardinality(votes) = 1

---------------------------------------------------------------------------
(* Registration, one request at a time, with forms that break the rules;   *)
(* the administrator logs in and rejects accounts in between.              *)
OrderForms == {1, 2, 6, 7, 8, 9, 10, 11, 12, 13, 14, 15, 16}

\* At most MaxAccounts rows are kept in the user table.
Room(i) == RegisterChecks(Forms[i]) = "insert" => Cardinality(users) < MaxAccounts

NextOrder ==
    \E c \in {"c1"} :
        \/ \E i \in OrderForms : Room(i) /\ register(c, i)
        \/ login(c, 1)
        \/ logout(c)
        \/ \E id \in UserIds : reject_user(c, id)

SpecOrder == Init /\ [][NextOrder]_vars

\* The document formats as the specification words them.
NationalId(n) == Len(n) = 12 /\ \A i \in 1..12 : n[i] \in Digits
VoterId(n) ==
    /\ Len(n) = 10
    /\ \A i \in 1..3 : n[i] \in Uppers
    /\ \A i \in 4..10 : n[i] \in Digits
TaxId(n) ==
    /\ Len(n) = 10
    /\ \A i \in 1..5 : n[i] \in Uppers
    /\ \A i \in 6..9 : n[i] \in Digits
    /\ n[10] \in Uppers
DocumentValid(f) ==
    \/ f.id_type = "aadhaar" /\ NationalId(f.id_number)
    \/ f.id_type = "voter_id" /\ VoterId(f.id_number)
    \/ f.id_type = "pan" /\ TaxId(f.id_number)

RegisterErrors ==
    {"PasswordMismatch", "UsernameTaken", "EmailTaken", "InvalidDocumentFormat",
     "DocumentAlreadyRegistered"}

\* The first precondition that fails, in the order of the specification.
FirstFailure(f) ==
    IF f.password # f.confirm_password THEN "PasswordMismatch"
    ELSE IF Named(f.username) # {} THEN "UsernameTaken"
    ELSE IF \E u \in users : u.email = f.email THEN "EmailTaken"
    ELSE IF verificationRequired /\ ~DocumentValid(f) THEN "InvalidDocumentFormat"
    ELSE IF verificationRequired /\ \E u \in users : u.id_number = f.id_number
    THEN "DocumentAlreadyRegistered"
    ELSE "none"

RegisterReports(f) ==
    /\ FirstFailure(f) # "none" => last'.result = FirstFailure(f)
    /\ last'.result \in RegisterErrors
          => /\ last'.result = FirstFailure(f)
             /\ UNCHANGED <<store, session>>

\* C15: register reports the first precondition that fails, in the order
\* passwords, username, email, document format, document already registered
\* (the last two with verification enabled), and such a failure leaves the
\* tables and the stored files as they were.
C15_RegisterOrder == [][Step("register") => RegisterReports(Forms[last'.arg])]_vars

\* With verification enabled an account is created only for a valid document,
\* and a document that is not valid is answered with a reported error.
AcceptsOnlyValid ==
    (Step("register") /\ verificationRequired) =>
        LET f == Forms[last'.arg] IN
        /\ last'.result = "ok" => DocumentValid(f)
        /\ ~DocumentValid(f) => (last'.result \in RegisterErrors /\ users' = users)

\* C16: with verification enabled, register creates an account only for a
\* national id of exactly 12 digits, a voter id of 3 uppercase letters and 7
\* digits, or a tax id of 5 uppercase letters, 4 digits and 1 uppercase letter;
\* every other type or number, a missing one included, is answered with a
\* reported error and creates no account; every stored non-admin account holds
\* such a document.
C16_DocumentFormats ==
    /\ [](verificationRequired =>
            \A u \in users : u.is_admin \/ DocumentValid(u))
    /\ [][AcceptsOnlyValid]_vars

\* A register that succeeded added one row, pending and not an administrator,
\* with the fields of the form; no browser is logged in as the new account.
RegisterContract ==
    (Step("register") /\ last'.result = "ok") =>
        LET f == Forms[last'.arg] IN
        /\ \E u \in users' \ users :
              /\ users' = users \cup {u}
              /\ ~u.is_verified /\ ~u.is_admin
              /\ u.username = f.username /\ u.email = f.email
              /\ u.id_type = f.id_type /\ u.id_number = f.id_number
              /\ \A c \in Clients : session'[c] # u.id
        /\ session' = session

\* C17: a successful register adds exactly one account, not verified and not
\* an administrator, with the username, email and document of the form,
\* changes no other account and no session, and leaves the registrant not
\* authenticated.
C17_RegisterPending == [][RegisterContract]_vars

ApproveContract ==
    (Step("verify_user") /\ AdminGate(last'.client) = "pass") =>
        IF Has(users, last'.arg)
        THEN LET user == Get(users, last'.arg) IN
             /\ last'.result = "ok"
             /\ users' = (users \ {user}) \cup {[user EXCEPT !.is_verified = TRUE]}
             /\ Get(users', last'.arg).is_verified
             /\ Get(users', last'.arg).is_admin = user.is_admin
             /\ user.is_verified => users' = users
             /\ UNCHANGED <<candidates, votes, elections, uploads, session>>
        ELSE /\ last'.result = "NotFound"
             /\ UNCHANGED <<store, session>>

\* C18: an administrator's approve of an existing account sets is_verified and
\* changes nothing else (the other accounts, the account's other fields, the
\* votes, candidates, elections, files and sessions); an approve of a verified
\* account changes no table; an approve of an id that names no account ends as
\* NotFound and changes nothing.
C18_Approve == [][ApproveContract]_vars

\* alice was approved while a vote, a candidate and an election are stored.
C18_Witness ==
    /\ last.op = "verify_user" /\ last.result = "ok"
    /\ \E u \in Named("alice") : u.id = last.arg /\ u.is_verified /\ ~u.is_admin
    /\ votes # {} /\ candidates # {} /\ elections # {}

\* C19: whenever no register is under way, every stored proof image is the
\* id_proof_image of an account: a register that stored no account left no
\* file behind.
C19_NoOrphanProof ==
    (\A r \in DOMAIN reqs : Finished(r)) =>
        \A file \in uploads : \E u \in users : u.id_proof_image = file

\* The outcome of /vote as the accounts, votes and candidates alone decide it.
OutcomeWithoutElections(c, candidate_id) ==
    IF ~is_authenticated(c) THEN "LoginRequired"
    ELSE IF verificationRequired /\ ~current_user(c).is_verified THEN "NotVerified"
    ELSE IF VotesOf(current_user(c).id) # {} THEN "AlreadyVoted"
    ELSE IF ~Has(candidates, candidate_id) THEN "CandidateNotFound"
    ELSE "ok"

VoteIgnoresElections ==
    Step("vote") =>
        /\ last'.result = OutcomeWithoutElections(last'.client, last'.arg)
        /\ elections' = elections
        /\ (/\ HasAccount /\ Caller.is_verified /\ VotesOf(Caller.id) = {}
            /\ Has(candidates, last'.arg) /\ Active(elections) = {})
              => (last'.result = "ok" /\ \E v \in votes' : v.user_id = Caller.id)

\* C20: the elections do not gate /vote: its outcome is what the accounts, the
\* votes and the candidates decide, whatever the election table holds, and a
\* verified account without a vote that names a stored candidate casts its
\* vote when no election is active or none exists.
C20_NoElectionGate == [][VoteIgnoresElections]_vars

\* A vote was cast while the one stored election is inactive.
C20_Witness ==
    /\ last.op = "vote" /\ last.result = "ok"
    /\ elections # {} /\ Active(elections) = {}
    /\ VotesOf(session[last.client]) # {}

\* Every stored vote is that of a verified account.
VotersVerified ==
    verificationRequired =>
        \A v \in votes : Has(users, v.user_id) /\ Get(users, v.user_id).is_verified

\* No step takes the verification of an account back, and a vote is stored
\* only for a caller that is verified, administrator or not.
VerifiedStays ==
    /\ \A u \in users, w \in users' :
          (u.id = w.id /\ u.is_verified) => w.is_verified
    /\ (verificationRequired /\ votes' \ votes # {}) =>
          /\ last'.op = "vote" /\ HasAccount /\ Caller.is_verified
          /\ \A v \in votes' \ votes : v.user_id = Caller.id
    /\ (Step("vote") /\ verificationRequired /\ HasAccount /\ ~Caller.is_verified)
          => (last'.result = "NotVerified" /\ votes' = votes)

\* C21: with verification required, every stored vote is owned by a verified
\* account: no step sets is_verified of an account back to false, and /vote
\* stores nothing for an account that is not verified, an administrator
\* included.
C21_VotersVerified == [](VotersVerified) /\ [][VerifiedStays]_vars

\* alice, made administrator but never approved, is logged in and her /vote
\* for the stored candidate was refused.
C21_Witness ==
    /\ last.op = "vote" /\ last.result = "NotVerified"
    /\ verificationRequired
    /\ Has(candidates, last.arg)
    /\ is_authenticated(last.client)
    /\ current_user(last.client).is_admin /\ ~current_user(last.client).is_verified

---------------------------------------------------------------------------
(* One voter: the administrator adds and deletes candidates and votes.     *)
NextRevote ==
    \E c \in {"c1"} :
        \/ login(c, 1)
        \/ logout(c)
        \/ NextId(candidates) <= MaxTallyCandidates /\ add_candidate(c, TRUE, 1)
        \/ \E id \in TallyCandidateIds : delete_candidate(c, id)
        \/ \E id \in TallyCandidateIds : vote(c, id)
        \/ \E code \in Codes : verify_vote(c, code)

SpecRevote == Init /\ [][NextRevote]_vars

RevoteContract ==
    /\ (Step("delete_candidate") /\ AdminGate(last'.client) = "pass"
            /\ Has(candidates, last'.arg)) =>
          /\ last'.result = "ok"
          /\ \A v \in votes :
                v.candidate_id = last'.arg
                    => ~\E w \in votes' : w.user_id = v.user_id
    /\ (Step("vote") /\ HasAccount /\ (Caller.is_verified \/ ~verificationRequired)
            /\ VotesOf(Caller.id) = {} /\ Has(candidates, last'.arg)) =>
          /\ last'.result = "ok"
          /\ \E v \in votes' \ votes :
                v.user_id = Caller.id /\ v.confirmation_code \notin 1..uuidCtr

\* C22: a delete of a candidate leaves every account that voted for it
\* without a vote, and a /vote of an account without a vote for a stored
\* candidate succeeds under a code not issued before, whether or not the
\* account has voted earlier; an account never holds two votes at once.
C22_VoteAgain == [](OneVotePerAccount) /\ [][RevoteContract]_vars

\* The administrator, the only account, holds a vote with the second code
\* issued: the candidate of the first vote was deleted in between.
C22_Witness ==
    /\ last.op = "vote" /\ last.result = "ok"
    /\ users = {AdminRow}
    /\ uuidCtr = 2
    /\ \E v \in votes : v.user_id = 1 /\ v.confirmation_code = 2
    /\ Cardinality(votes) = 1

---------------------------------------------------------------------------
(* Candidates and their images: the administrator adds, edits and deletes. *)
NextCandidates ==
    \E c \in {"c1"} :
        \/ login(c, 1)
        \/ logout(c)
        \/ \E p \in BOOLEAN, img \in DOMAIN Images :
               NextId(candidates) <= MaxTallyCandidates /\ add_candidate(c, p, img)
        \/ \E id \in TallyCandidateIds, p \in BOOLEAN, img \in DOMAIN Images :
               edit_candidate(c, id, p, img)
        \/ \E id \in TallyCandidateIds : delete_candidate(c, id)

SpecCandidates == Init /\ [][NextCandidates]_vars

\* C23: the image of every stored candidate that has one is a stored file;
\* no delete and no replacement of an image takes away the file that another
\* candidate names, also when two uploads had the same file name.
C23_ImagesStored ==
    /\ [](\A x \in candidates : x.image # NoFile => x.image \in uploads)
    /\ [][\A x \in candidates \cap candidates' :
             (x.image \in uploads /\ last'.arg # x.id) => x.image \in uploads']_vars

RegisterWithoutVerification ==
    (/\ Step("register") /\ ~verificationRequired
     /\ Forms[last'.arg].password = Forms[last'.arg].confirm_password
     /\ Named(Forms[last'.arg].username) = {}
     /\ ~\E u \in users : u.email = Forms[last'.arg].email) =>
        /\ last'.result = "ok"
        /\ \E u \in users' \ users :
              /\ users' = users \cup {u}
              /\ u.username = Forms[last'.arg].username
              /\ ~u.is_verified

\* C24: with verification disabled, a register with matching passwords and a
\* username and email that no account holds makes no document check, ends
\* without an unhandled failure and stores one new account, not verified.
C24_RegisterVerificationOff == [][RegisterWithoutVerification]_vars

=============================================================================
